---- MODULE Spec2Model ----
(***************************************************************************)
(* A model of ol/source/TileArcGISRest.js: the user parameter mapping, the *)
(* cache key derived from it, and the construction of the export request   *)
(* URL of a tile.                                                          *)
(*                                                                         *)
(* JavaScript strings are sequences of one-character strings, so that      *)
(* concatenation, join and the regular expressions of the source act on    *)
(* characters.  JavaScript objects are sequences of <<key, value>> pairs   *)
(* in insertion order.  The pixel ratio is counted in halves (2 is the     *)
(* ratio 1, 3 is the ratio 1.5), all other numbers are integers or NaN.    *)
(***************************************************************************)
EXTENDS Integers, Sequences, FiniteSets

VARIABLES params_, key, urls, tileGrid, tmpExtent_, tmpSize, lastOp, ret, request,
          url, modifiedUrl, calls

vars == <<params_, key, urls, tileGrid, tmpExtent_, tmpSize, lastOp, ret, request,
          url, modifiedUrl, calls>>

----------------------------------------------------------------------------
(* JavaScript values                                                       *)

Num(n) == [t |-> "number", n |-> n, s |-> <<>>]

Str(s) == [t |-> "string", n |-> 0, s |-> s]

Bool(b) == [t |-> "boolean", n |-> IF b THEN 1 ELSE 0, s |-> <<>>]

NaN == [t |-> "NaN", n |-> 0, s |-> <<>>]

Undefined == [t |-> "undefined", n |-> 0, s |-> <<>>]

Null == [t |-> "null", n |-> 0, s |-> <<>>]

Digits == <<"0", "1", "2", "3", "4", "5", "6", "7", "8", "9">>

RECURSIVE NatToString(_)
NatToString(n) ==
  IF n < 10 THEN <<Digits[n + 1]>>
  ELSE NatToString(n \div 10) \o <<Digits[(n % 10) + 1]>>

\* Number.prototype.toString of an integer.
IntToString(n) == IF n < 0 THEN <<"-">> \o NatToString(-n) ELSE NatToString(n)

\* The string conversion applied by `key + '-' + value` and by join.
StringOf(v) ==
  CASE v.t = "number" -> IntToString(v.n)
    [] v.t = "string" -> v.s
    [] v.t = "boolean" -> IF v.n = 1 THEN <<"t", "r", "u", "e">>
                          ELSE <<"f", "a", "l", "s", "e">>
    [] v.t = "NaN" -> <<"N", "a", "N">>
    [] v.t = "null" -> <<"n", "u", "l", "l">>
    [] OTHER -> <<"u", "n", "d", "e", "f", "i", "n", "e", "d">>

DigitValue(c) == CHOOSE d \in 0..9 : Digits[d + 1] = c

IsDigit(c) == \E d \in 0..9 : Digits[d + 1] = c

RECURSIVE ParseNat(_)
ParseNat(s) ==
  IF Len(s) = 0 THEN 0
  ELSE 10 * ParseNat(SubSeq(s, 1, Len(s) - 1)) + DigitValue(s[Len(s)])

AllDigits(s) == Len(s) > 0 /\ \A i \in 1..Len(s) : IsDigit(s[i])

\* The numeric conversion applied by `*` to an operand.
ToNumber(v) ==
  CASE v.t = "number" -> v
    [] v.t = "boolean" -> Num(v.n)
    [] v.t = "null" -> Num(0)
    [] v.t = "string" ->
         IF Len(v.s) = 0 THEN Num(0)
         ELSE IF AllDigits(v.s) THEN Num(ParseNat(v.s))
         ELSE IF v.s[1] = "-" /\ AllDigits(Tail(v.s)) THEN Num(-ParseNat(Tail(v.s)))
         ELSE NaN
    [] OTHER -> NaN

\* The boolean conversion applied by `? :`.
Truthy(v) ==
  CASE v.t = "number" -> v.n # 0
    [] v.t = "string" -> Len(v.s) > 0
    [] v.t = "boolean" -> v.n = 1
    [] OTHER -> FALSE

\* Math.round(v * pixelRatio): the product counted in halves, rounded half up.
MathRoundTimes(v, pixelRatio) ==
  IF ToNumber(v).t = "NaN" THEN NaN
  ELSE Num((ToNumber(v).n * pixelRatio + 1) \div 2)

----------------------------------------------------------------------------
(* JavaScript objects and arrays                                           *)

Keys(obj) == {obj[i][1] : i \in 1..Len(obj)}

Has(obj, k) == k \in Keys(obj)

Get(obj, k) ==
  IF Has(obj, k) THEN obj[CHOOSE i \in 1..Len(obj) : obj[i][1] = k][2]
  ELSE Undefined

\* obj[k] = v: an existing key keeps its place, a new key goes last.
Put(obj, k, v) ==
  IF Has(obj, k)
  THEN [i \in 1..Len(obj) |-> IF obj[i][1] = k THEN <<k, v>> ELSE obj[i]]
  ELSE Append(obj, <<k, v>>)

RECURSIVE assign(_, _)
assign(target, source) ==
  IF Len(source) = 0 THEN target
  ELSE assign(Put(target, source[1][1], source[1][2]), Tail(source))

RECURSIVE Join(_, _)
Join(strs, sep) ==
  IF Len(strs) = 0 THEN <<>>
  ELSE IF Len(strs) = 1 THEN strs[1]
  ELSE strs[1] \o sep \o Join(Tail(strs), sep)

EndsWith(s, suffix) ==
  /\ Len(s) >= Len(suffix)
  /\ SubSeq(s, Len(s) - Len(suffix) + 1, Len(s)) = suffix

DropLast(s, n) == SubSeq(s, 1, Len(s) - n)

TypeError == [t |-> "TypeError", n |-> 0, s |-> <<>>]

----------------------------------------------------------------------------
(* Strings of the source                                                   *)

kF == <<"F">>

kFORMAT == <<"F", "O", "R", "M", "A", "T">>

kTRANSPARENT == <<"T", "R", "A", "N", "S", "P", "A", "R", "E", "N", "T">>

kSIZE == <<"S", "I", "Z", "E">>

kBBOX == <<"B", "B", "O", "X">>

kBBOXSR == <<"B", "B", "O", "X", "S", "R">>

kIMAGESR == <<"I", "M", "A", "G", "E", "S", "R">>

kDPI == <<"D", "P", "I">>

sImage == <<"i", "m", "a", "g", "e">>

sPNG32 == <<"P", "N", "G", "3", "2">>

sMapServer == <<"M", "a", "p", "S", "e", "r", "v", "e", "r">>

sImageServer == <<"I", "m", "a", "g", "e", "S", "e", "r", "v", "e", "r">>

sExport == <<"e", "x", "p", "o", "r", "t">>

sExportImage == <<"e", "x", "p", "o", "r", "t", "I", "m", "a", "g", "e">>

ReservedKeys == {kSIZE, kBBOX, kBBOXSR, kIMAGESR, kDPI}

DefaultKeys == {kF, kFORMAT, kTRANSPARENT}

----------------------------------------------------------------------------
(* Collaborators: tile grid, size, tile coordinate hash, modulo, uri       *)

\* A tile grid is [resolutions, tileSize, origin]; tileSize is <<n>> for a
\* number and <<w, h>> for an array.
toSize(size) == IF Len(size) = 1 THEN <<size[1], size[1]>> ELSE size

\* (size * ratio + 0.5) | 0, the ratio in halves.
scaleSize(size, pixelRatio) ==
  <<(size[1] * pixelRatio + 1) \div 2, (size[2] * pixelRatio + 1) \div 2>>

getTileCoordExtent(grid, tileCoord) ==
  LET resolution == grid.resolutions[tileCoord[1] + 1]
      size == toSize(grid.tileSize)
      minX == grid.origin[1] + tileCoord[2] * size[1] * resolution
      minY == grid.origin[2] + tileCoord[3] * size[2] * resolution
  IN <<minX, minY, minX + size[1] * resolution, minY + size[2] * resolution>>

\* (tileCoord[1] << tileCoord[0]) + tileCoord[2]
tileCoordHash(tileCoord) == tileCoord[2] * (2 ^ tileCoord[1]) + tileCoord[3]

\* The remainder operator %: the sign of the result is the dividend's.
Remainder(a, b) == IF a >= 0 THEN a % b ELSE -((-a) % b)

\* modulo(a, b) of ol/math: r = a % b; r * b < 0 ? r + b : r.  NaN for b = 0.
modulo(a, b) ==
  IF b = 0 THEN NaN
  ELSE LET r == Remainder(a, b) IN Num(IF r * b < 0 THEN r + b ELSE r)

Unreserved(c) ==
  c \in {"a", "b", "c", "d", "e", "f", "g", "h", "i", "j", "k", "l", "m", "n",
         "o", "p", "q", "r", "s", "t", "u", "v", "w", "x", "y", "z", "A", "B",
         "C", "D", "E", "F", "G", "H", "I", "J", "K", "L", "M", "N", "O", "P",
         "Q", "R", "S", "T", "U", "V", "W", "X", "Y", "Z", "0", "1", "2", "3",
         "4", "5", "6", "7", "8", "9", "-", "_", ".", "!", "~", "*", "'", "(", ")"}

PercentCode(c) ==
  CASE c = "/" -> <<"%", "2", "F">>
    [] c = "," -> <<"%", "2", "C">>
    [] c = ":" -> <<"%", "3", "A">>
    [] c = "?" -> <<"%", "3", "F">>
    [] c = "&" -> <<"%", "2", "6">>
    [] c = "=" -> <<"%", "3", "D">>
    [] OTHER -> <<"%", "2", "0">>

RECURSIVE encodeURIComponent(_)
encodeURIComponent(s) ==
  IF Len(s) = 0 THEN <<>>
  ELSE (IF Unreserved(s[1]) THEN <<s[1]>> ELSE PercentCode(s[1]))
       \o encodeURIComponent(Tail(s))

RECURSIVE KeyParams(_)
KeyParams(params) ==
  IF Len(params) = 0 THEN <<>>
  ELSE (IF params[1][2].t \in {"null", "undefined"} THEN <<>>
        ELSE << params[1][1] \o <<"=">> \o encodeURIComponent(StringOf(params[1][2])) >>)
       \o KeyParams(Tail(params))

appendParams(uri, params) ==
  LET qs == Join(KeyParams(params), <<"&">>)
      cut == IF Len(uri) > 0 /\ uri[Len(uri)] \in {"?", "&"} THEN DropLast(uri, 1) ELSE uri
      sep == IF \E i \in 1..Len(cut) : cut[i] = "?" THEN <<"&">> ELSE <<"?">>
  IN cut \o sep \o qs

\* projection.getCode().split(':').pop()
RECURSIVE SplitPop(_)
SplitPop(code) ==
  IF Len(code) = 0 \/ code[Len(code)] = ":" THEN <<>>
  ELSE SplitPop(DropLast(code, 1)) \o <<code[Len(code)]>>

\* getTileGridForProjection: the default grid of a projection.
getTileGridForProjection(projection) ==
  [resolutions |-> <<4, 2, 1>>, tileSize |-> <<256>>, origin |-> <<-512, -512>>]

----------------------------------------------------------------------------
(* TileArcGISRest                                                          *)

DefaultDpi == 90

KeyEntry(entry) == entry[1] \o <<"-">> \o StringOf(entry[2])

getKeyForParams_(params) ==
  Join([i \in 1..Len(params) |-> KeyEntry(params[i])], <<"/">>)

\* A DPI that ignores the DPI of params.
DpiParamDefaultOnly(params, pixelRatio) == MathRoundTimes(Num(DefaultDpi), pixelRatio)

\* Math.round(params['DPI'] ? params['DPI'] * pixelRatio : 90 * pixelRatio)
DpiParam(params, pixelRatio) ==
  IF Truthy(Get(params, kDPI))
  THEN MathRoundTimes(Get(params, kDPI), pixelRatio)
  ELSE MathRoundTimes(Num(DefaultDpi), pixelRatio)

SizeParam(tileSize) ==
  Str(IntToString(tileSize[1]) \o <<",">> \o IntToString(tileSize[2]))

BboxParam(tileExtent) ==
  Str(Join([i \in 1..Len(tileExtent) |-> IntToString(tileExtent[i])], <<",">>))

\* The assignments with BBOX written only when params holds none.
SetReservedKeepBbox(params, tileSize, tileExtent, pixelRatio, srid) ==
  LET p1 == Put(params, kSIZE, SizeParam(tileSize))
      p2 == IF Has(p1, kBBOX) THEN p1 ELSE Put(p1, kBBOX, BboxParam(tileExtent))
      p3 == Put(p2, kBBOXSR, Str(srid))
      p4 == Put(p3, kIMAGESR, Str(srid))
  IN Put(p4, kDPI, DpiParam(p4, pixelRatio))

\* The five assignments to params of getRequestUrl_.
SetReserved(params, tileSize, tileExtent, pixelRatio, srid) ==
  LET p1 == Put(params, kSIZE, SizeParam(tileSize))
      p2 == Put(p1, kBBOX, BboxParam(tileExtent))
      p3 == Put(p2, kBBOXSR, Str(srid))
      p4 == Put(p3, kIMAGESR, Str(srid))
  IN Put(p4, kDPI, DpiParam(p4, pixelRatio))

\* The choice with the remainder operator % in place of modulo.
SelectUrlRemainder(urlList, tileCoord) ==
  IF Len(urlList) = 1 THEN Str(urlList[1])
  ELSE LET index == IF Len(urlList) = 0 THEN NaN
                    ELSE Num(Remainder(tileCoordHash(tileCoord), Len(urlList)))
       IN IF index.t = "number" /\ index.n \in 0..(Len(urlList) - 1)
          THEN Str(urlList[index.n + 1])
          ELSE Undefined

\* The choice of url among urls; undefined when the index names no element.
SelectUrl(urlList, tileCoord) ==
  IF Len(urlList) = 1 THEN Str(urlList[1])
  ELSE LET index == modulo(tileCoordHash(tileCoord), Len(urlList))
       IN IF index.t = "number" /\ index.n \in 0..(Len(urlList) - 1)
          THEN Str(urlList[index.n + 1])
          ELSE Undefined

\* url.replace(/MapServer$/, 'MapServer/export'): no trailing slash allowed.
ReplaceMapServerNoSlash(u) ==
  IF EndsWith(u, sMapServer)
  THEN DropLast(u, Len(sMapServer)) \o sMapServer \o <<"/">> \o sExport
  ELSE u

\* url.replace(/MapServer\/?$/, 'MapServer/export')
ReplaceMapServer(u) ==
  IF EndsWith(u, sMapServer \o <<"/">>)
  THEN DropLast(u, Len(sMapServer) + 1) \o sMapServer \o <<"/">> \o sExport
  ELSE IF EndsWith(u, sMapServer)
  THEN DropLast(u, Len(sMapServer)) \o sMapServer \o <<"/">> \o sExport
  ELSE u

\* url.replace(/ImageServer\/?$/, 'ImageServer/exportImage')
ReplaceImageServer(u) ==
  IF EndsWith(u, sImageServer \o <<"/">>)
  THEN DropLast(u, Len(sImageServer) + 1) \o sImageServer \o <<"/">> \o sExportImage
  ELSE IF EndsWith(u, sImageServer)
  THEN DropLast(u, Len(sImageServer)) \o sImageServer \o <<"/">> \o sExportImage
  ELSE u

ModifiedUrl(u) == ReplaceImageServer(ReplaceMapServer(u))

\* The outcome of a call: the value returned (or the error thrown), the
\* params handed to appendParams, the locals url and modifiedUrl, and the
\* steps taken in order.
getRequestUrl_(urlsField, tileCoord, tileSize, tileExtent, pixelRatio, projection, params) ==
  IF urlsField.isNull
  THEN [ret |-> Undefined, params |-> params, request |-> <<>>, url |-> Undefined,
        modifiedUrl |-> Undefined, calls |-> <<>>]
  ELSE
    LET srid == SplitPop(projection)
        set == SetReserved(params, tileSize, tileExtent, pixelRatio, srid)
        selected == SelectUrl(urlsField.list, tileCoord)
    IN IF selected.t # "string"
       THEN [ret |-> TypeError, params |-> set, request |-> <<>>, url |-> selected,
             modifiedUrl |-> Undefined,
             calls |-> <<"getCode", "setReserved", "selectUrl", "replace">>]
       ELSE [ret |-> Str(appendParams(ModifiedUrl(selected.s), set)), params |-> set,
             request |-> set, url |-> selected,
             modifiedUrl |-> Str(ModifiedUrl(selected.s)),
             calls |-> <<"getCode", "setReserved", "selectUrl", "replace", "appendParams">>]

getTilePixelRatio(pixelRatio) == pixelRatio

\* The stored object itself, not a copy.
getParams(paramsField) == paramsField

\* The defaults written over the user's values.
MergeDefaultsLast(params) ==
  assign(params,
         << <<kF, Str(sImage)>>, <<kFORMAT, Str(sPNG32)>>, <<kTRANSPARENT, Bool(TRUE)>> >>)

\* Apply default params and override with user specified values.
MergeDefaults(params) ==
  assign(<< <<kF, Str(sImage)>>, <<kFORMAT, Str(sPNG32)>>, <<kTRANSPARENT, Bool(TRUE)>> >>,
         params)

\* The defaults merged into the stored params_ itself.
BaseParamsStored(params) == [object |-> MergeDefaults(params), fresh |-> FALSE]

\* baseParams: an object of the call's own (fresh), not the stored params_.
BaseParams(params) == [object |-> MergeDefaults(params), fresh |-> TRUE]

\* The guard one level too strict.
ZoomOutOfRangeOffByOne(grid, tileCoord) == Len(grid.resolutions) <= tileCoord[1] + 1

ZoomOutOfRange(grid, tileCoord) == Len(grid.resolutions) <= tileCoord[1]

\* The outcome of fixedTileUrlFunction on a source with the given fields;
\* params_ is the stored object after the call.
fixedTileUrlFunction(paramsField, urlsField, gridField, extentField, sizeField, tileCoord, pixelRatio, projection) ==
  LET grid == IF Len(gridField) = 1 THEN gridField[1]
              ELSE getTileGridForProjection(projection)
      pre == <<"getTileGrid">>
             \o (IF Len(gridField) = 1 THEN <<>> ELSE <<"getTileGridForProjection">>)
             \o <<"getResolutions">>
  IN IF ZoomOutOfRange(grid, tileCoord)
     THEN [ret |-> Undefined, request |-> <<>>, url |-> Undefined,
           modifiedUrl |-> Undefined, calls |-> pre, params_ |-> paramsField,
           tmpExtent_ |-> extentField, tmpSize |-> sizeField]
     ELSE
       LET tileExtent == getTileCoordExtent(grid, tileCoord)
           size == toSize(grid.tileSize)
           tileSize == IF pixelRatio # 2 THEN scaleSize(size, pixelRatio) ELSE size
           scratch == IF pixelRatio # 2 THEN tileSize
                      ELSE IF Len(grid.tileSize) = 1 THEN size ELSE sizeField
           mid == <<"getTileCoordExtent", "getTileSize">>
                  \o (IF pixelRatio # 2 THEN <<"scaleSize">> ELSE <<>>)
                  \o <<"assign">>
           baseParams == BaseParams(paramsField)
           out == getRequestUrl_(urlsField, tileCoord, tileSize, tileExtent,
                                 pixelRatio, projection, baseParams.object)
       IN [ret |-> out.ret, request |-> out.request, url |-> out.url,
           modifiedUrl |-> out.modifiedUrl, calls |-> pre \o mid \o out.calls,
           params_ |-> IF baseParams.fresh THEN paramsField ELSE out.params,
           tmpExtent_ |-> tileExtent, tmpSize |-> scratch]

\* The key computed before the merge.
updateParamsKeyFirst(paramsField, params) ==
  [params_ |-> assign(paramsField, params), key |-> getKeyForParams_(paramsField)]

\* assign(this.params_, params); this.setKey(this.getKeyForParams_())
updateParams(paramsField, params) ==
  LET merged == assign(paramsField, params)
  IN [params_ |-> merged, key |-> getKeyForParams_(merged)]

----------------------------------------------------------------------------
(* Bounds and inputs                                                       *)

MaxEntries == 2

MaxParams == 2

MaxZoom == 2

MaxUrls == 3

MaxFrags == 2

kLAYERS == <<"L", "A", "Y", "E", "R", "S">>

sX == Str(<<"x">>)

NoCoord == <<0, 0, 0>>

TileCoords == {<<z, x, y>> : z \in 0..MaxZoom, x \in {-1, 1}, y \in {-2, 0}}

\* In halves: the ratios 1, 1.5 and 2.
PixelRatios == {2, 3, 4}

Epsg3857 == <<"E", "P", "S", "G", ":", "3", "8", "5", "7">>

Projections == {Epsg3857, <<"x">>}

GridA == [resolutions |-> <<2, 1>>, tileSize |-> <<256, 128>>, origin |-> <<0, 0>>]

Grids == {<<>>, <<GridA>>}

\* The i-th mirror of a service.
Mirror(i) == <<"h">> \o NatToString(i) \o <<"/">> \o sMapServer

MirrorList(n) == [i \in 1..n |-> Mirror(i)]

UrlsOf(list) == [isNull |-> FALSE, list |-> list]

UrlsNull == [isNull |-> TRUE, list |-> <<>>]

Frags ==
  {sMapServer, sImageServer, <<"/">>, <<"/">> \o sExport, <<"/">> \o sExportImage,
   <<"?">>}

RECURSIVE Flatten(_)
Flatten(seqs) == IF Len(seqs) = 0 THEN <<>> ELSE seqs[1] \o Flatten(Tail(seqs))

ServiceUrls ==
  {<<"h", "/">> \o Flatten(f) : f \in UNION {[1..m -> Frags] : m \in 0..MaxFrags}}

\* The values a constructor option gives a key.
ValuesFor(k) ==
  IF k = kDPI THEN {Num(0), Num(1), Num(96), sX}
  ELSE IF k \in ReservedKeys THEN {Num(1), sX}
  ELSE {sX}

KeyOrder == <<kLAYERS, kF, kFORMAT, kTRANSPARENT, kSIZE, kBBOX, kBBOXSR, kIMAGESR, kDPI>>

\* The objects with at most n entries, of the keys KeyOrder[i] and later.
RECURSIVE ObjectsFrom(_, _)
ObjectsFrom(i, n) ==
  IF i > Len(KeyOrder) \/ n = 0 THEN {<<>>}
  ELSE ObjectsFrom(i + 1, n)
       \cup {<< <<KeyOrder[i], v>> >> \o o :
               v \in ValuesFor(KeyOrder[i]), o \in ObjectsFrom(i + 1, n - 1)}

ParamObjects == ObjectsFrom(1, MaxParams)

\* The keys and values updateParams and the caller's writes use.
UpdateKeys == {kLAYERS, kBBOX, kDPI}

UpdateValues == {Num(1), Str(<<"1">>), sX}

Updates == {<<>>} \cup {<< <<k, v>> >> : k \in UpdateKeys, v \in UpdateValues}

Op(name, tileCoord, pixelRatio, projection, params) ==
  [op |-> name, tileCoord |-> tileCoord, pixelRatio |-> pixelRatio,
   projection |-> projection, params |-> params]

----------------------------------------------------------------------------
(* The constructor and the operations                                      *)

Constructor(params, urlsOption, gridOption) ==
  /\ params_ = params
  /\ urls = urlsOption
  /\ tileGrid = gridOption
  /\ tmpExtent_ = <<>>
  /\ tmpSize = <<0, 0>>
  /\ key = getKeyForParams_(params)
  /\ lastOp = Op("constructor", NoCoord, 0, <<>>, params)
  /\ ret = Undefined
  /\ request = <<>>
  /\ url = Undefined
  /\ modifiedUrl = Undefined
  /\ calls = <<>>

Init ==
  \E u \in {<<>>} \cup {<< <<kLAYERS, sX>> >>} :
    Constructor(u, UrlsOf(MirrorList(1)), <<GridA>>)

UpdateParams(params) ==
  /\ Len(assign(params_, params)) <= MaxEntries
  /\ params_' = updateParams(params_, params).params_
  /\ key' = updateParams(params_, params).key
  /\ lastOp' = Op("updateParams", NoCoord, 0, <<>>, params)
  /\ ret' = Undefined
  /\ request' = <<>>
  /\ url' = Undefined
  /\ modifiedUrl' = Undefined
  /\ calls' = <<>>
  /\ UNCHANGED <<urls, tileGrid, tmpExtent_, tmpSize>>

\* A write by the caller to the object getParams returns (the object the
\* constructor was given): the source runs no code.
CallerWrite(k, v) ==
  /\ Len(Put(getParams(params_), k, v)) <= MaxEntries
  /\ params_' = Put(getParams(params_), k, v)
  /\ lastOp' = Op("write", NoCoord, 0, <<>>, << <<k, v>> >>)
  /\ ret' = Undefined
  /\ request' = <<>>
  /\ url' = Undefined
  /\ modifiedUrl' = Undefined
  /\ calls' = <<>>
  /\ UNCHANGED <<key, urls, tileGrid, tmpExtent_, tmpSize>>

FixedTileUrlFunction(tileCoord, pixelRatio, projection) ==
  \E out \in {fixedTileUrlFunction(params_, urls, tileGrid, tmpExtent_, tmpSize,
                                  tileCoord, pixelRatio, projection)} :
     /\ ret' = out.ret
     /\ request' = out.request
     /\ url' = out.url
     /\ modifiedUrl' = out.modifiedUrl
     /\ calls' = out.calls
     /\ params_' = out.params_
     /\ tmpExtent_' = out.tmpExtent_
     /\ tmpSize' = out.tmpSize
     /\ lastOp' = Op("fixedTileUrlFunction", tileCoord, getTilePixelRatio(pixelRatio),
                     projection, <<>>)
     /\ UNCHANGED <<key, urls, tileGrid>>

Next ==
  \/ \E u \in Updates : UpdateParams(u)
  \/ \E k \in UpdateKeys, v \in UpdateValues : CallerWrite(k, v)
  \/ \E z \in {1, MaxZoom} : FixedTileUrlFunction(<<z, 1, -2>>, 3, Epsg3857)

Spec == Init /\ [][Next]_vars

\* Every construction with a params option, followed by calls of
\* fixedTileUrlFunction that vary the pixel ratio and the projection.
InitParams ==
  \E p \in ParamObjects, g \in Grids : Constructor(p, UrlsOf(MirrorList(1)), g)

NextParams ==
  \E pr \in PixelRatios, proj \in Projections :
    FixedTileUrlFunction(<<0, 1, -2>>, pr, proj)

SpecParams == InitParams /\ [][NextParams]_vars

\* Every construction with a url or urls option (or none), followed by calls
\* of fixedTileUrlFunction that vary the tile coordinate.
InitUrls ==
  \/ \E n \in 0..MaxUrls, g \in Grids, p \in {<<>>, << <<kDPI, Num(96)>>, <<kBBOX, sX>> >>} :
       Constructor(p, UrlsOf(MirrorList(n)), g)
  \/ \E g \in Grids : Constructor(<<>>, UrlsNull, g)
  \/ \E u \in ServiceUrls : Constructor(<<>>, UrlsOf(<<u>>), <<GridA>>)

NextUrls == \E tc \in TileCoords : FixedTileUrlFunction(tc, 2, Epsg3857)

SpecUrls == InitUrls /\ [][NextUrls]_vars

\* Every construction with a params option whose values may hold the
\* characters '/' and '-', followed by updateParams calls with such objects.
KeyValues == {Str(<<>>), Str(<<"/">> \o kBBOX \o <<"-">>), sX, Num(1)}

KeyObjects ==
  {<<>>}
  \cup {<< <<k, v>> >> : k \in {kLAYERS, kBBOX}, v \in KeyValues}
  \cup {<< <<kLAYERS, v>>, <<kBBOX, w>> >> : v \in KeyValues, w \in KeyValues}
  \cup {<< <<kBBOX, w>>, <<kLAYERS, v>> >> : v \in KeyValues, w \in KeyValues}

InitKey == \E p \in KeyObjects : Constructor(p, UrlsOf(MirrorList(1)), <<GridA>>)

NextKey == \E u \in KeyObjects : UpdateParams(u)

SpecKey == InitKey /\ [][NextKey]_vars

----------------------------------------------------------------------------
(* Properties                                                              *)

Called == lastOp.op = "fixedTileUrlFunction"

IsUrl(v) == v.t = "string"

ActiveGrid ==
  IF Len(tileGrid) = 1 THEN tileGrid[1] ELSE getTileGridForProjection(lastOp.projection)

\* The request the last call builds on a source that stores p instead.
RequestOf(p) ==
  fixedTileUrlFunction(p, urls, tileGrid, tmpExtent_, tmpSize, lastOp.tileCoord,
                       lastOp.pixelRatio, lastOp.projection).request

\* The objects that differ from p only in the values of reserved keys.
RECURSIVE ReservedVariants(_)
ReservedVariants(p) ==
  IF Len(p) = 0 THEN {<<>>}
  ELSE {<<e>> \o r :
          e \in (IF p[1][1] \in ReservedKeys
                 THEN {<<p[1][1], v>> : v \in ValuesFor(p[1][1])}
                 ELSE {p[1]}),
          r \in ReservedVariants(Tail(p))}

WithoutReserved(p) == SelectSeq(p, LAMBDA e : e[1] \notin ReservedKeys)

\* C1 as stated: whenever fixedTileUrlFunction returns a URL, the values of
\* SIZE, BBOX, BBOXSR, IMAGESR and DPI in the request are the same for any
\* two stored parameter sets that differ only in the values of these keys.
C1_AllFiveIgnoreUser ==
  (Called /\ IsUrl(ret)) =>
    \A q \in ReservedVariants(params_) : \A k \in ReservedKeys :
      Get(RequestOf(q), k) = Get(request, k)

\* C1 amended: whenever fixedTileUrlFunction returns a URL, the values of
\* SIZE, BBOX, BBOXSR and IMAGESR in the request are those of a source whose
\* stored parameters hold no reserved key, and are the same for any two
\* stored parameter sets that differ only in the values of the five reserved
\* keys; the DPI is the same for any two such sets that hold the same DPI.
C1_FourIgnoreUser ==
  (Called /\ IsUrl(ret)) =>
    /\ \A k \in ReservedKeys \ {kDPI} :
         Get(request, k) = Get(RequestOf(WithoutReserved(params_)), k)
    /\ \A q \in ReservedVariants(params_) :
         /\ \A k \in ReservedKeys \ {kDPI} : Get(RequestOf(q), k) = Get(request, k)
         /\ Get(q, kDPI) = Get(params_, kDPI) =>
              Get(RequestOf(q), kDPI) = Get(request, kDPI)

C1_Witness ==
  /\ Called
  /\ IsUrl(ret)
  /\ Has(params_, kBBOX)
  /\ Has(params_, kDPI)
  /\ Get(request, kBBOX) # Get(params_, kBBOX)

\* Math.round of h halves is the integer n with n - 1/2 <= h/2 < n + 1/2.
IsRoundOfHalves(v, h) == v.t = "number" /\ 2 * v.n - 1 <= h /\ h < 2 * v.n + 1

\* C7 as stated: the DPI of the request is round(d * pixelRatio), d the DPI
\* of the stored parameters when one is present (0 included), 90 otherwise.
C7_DpiOfPresent ==
  (Called /\ IsUrl(ret)) =>
    LET d == Get(params_, kDPI)
    IN CASE Has(params_, kDPI) /\ d.t = "number" ->
              IsRoundOfHalves(Get(request, kDPI), d.n * lastOp.pixelRatio)
         [] Has(params_, kDPI) /\ d.t # "number" -> Get(request, kDPI) = NaN
         [] OTHER -> IsRoundOfHalves(Get(request, kDPI), 90 * lastOp.pixelRatio)

\* C7 amended: the DPI of the request is round(d * pixelRatio), d the DPI of
\* the stored parameters when that value is truthy (a number other than 0,
\* a non-empty string), and 90 when it is absent or falsy (0 included); a
\* string that is no number gives NaN.
C7_DpiOfTruthy ==
  (Called /\ IsUrl(ret)) =>
    LET d == Get(params_, kDPI)
    IN CASE d.t = "number" /\ d.n # 0 ->
              IsRoundOfHalves(Get(request, kDPI), d.n * lastOp.pixelRatio)
         [] d.t = "string" /\ Len(d.s) > 0 -> Get(request, kDPI) = NaN
         [] OTHER -> IsRoundOfHalves(Get(request, kDPI), 90 * lastOp.pixelRatio)

\* DPI 96 at pixel ratio 2 gives 192.
C7_Witness ==
  /\ Called
  /\ Get(params_, kDPI) = Num(96)
  /\ lastOp.pixelRatio = 4
  /\ Get(request, kDPI) = Num(192)

InSeq(x, seq) == \E i \in 1..Len(seq) : seq[i] = x

\* C4: with no URL list, or an empty one, fixedTileUrlFunction returns
\* undefined, raises no error, and reaches neither the selection nor the
\* rewriting of a URL.
C4_NoUrlsUndefined ==
  (Called /\ (urls.isNull \/ Len(urls.list) = 0)) =>
    /\ ret = Undefined
    /\ ~InSeq("selectUrl", calls)
    /\ ~InSeq("replace", calls)

\* C5: a call with a zoom level above the last level K of the tile grid
\* returns undefined, whatever the URL list, before the tile extent and the
\* tile size are computed (the scratch extent and size are left as they
\* were); a call with a zoom level in 0..K and a non-empty URL list returns
\* a URL.
C5_ZoomGuard ==
  [][lastOp'.op = "fixedTileUrlFunction" =>
       LET K == Len(ActiveGrid'.resolutions) - 1
           z == lastOp'.tileCoord[1]
       IN /\ z > K =>
               /\ ret' = Undefined
               /\ tmpExtent_' = tmpExtent_
               /\ tmpSize' = tmpSize
               /\ ~InSeq("getTileCoordExtent", calls')
               /\ ~InSeq("getTileSize", calls')
          /\ (z \in 0..K /\ ~urls.isNull /\ Len(urls.list) >= 1) => IsUrl(ret')]_vars

C5_Witness ==
  /\ Called
  /\ lastOp.tileCoord[1] > Len(ActiveGrid.resolutions) - 1
  /\ ret = Undefined
  /\ Len(urls.list) >= 2
  /\ Len(tmpExtent_) = 4

\* C6: for a list of N >= 1 URLs the url selected for a tile coordinate is
\* urls[0] when N = 1 and urls[hash mod N] when N > 1, the index being the
\* non-negative remainder in 0..N-1 also for a negative hash: an element of
\* the list that depends on the coordinate and the list alone.
C6_SelectedUrl ==
  (Called /\ ~urls.isNull /\ Len(urls.list) >= 1 /\ ~ZoomOutOfRange(ActiveGrid, lastOp.tileCoord)) =>
    LET N == Len(urls.list)
        index == IF N = 1 THEN 0 ELSE tileCoordHash(lastOp.tileCoord) % N
    IN /\ index \in 0..(N - 1)
       /\ url = Str(urls.list[index + 1])

C6_Witness ==
  /\ Called
  /\ Len(urls.list) >= 3
  /\ tileCoordHash(lastOp.tileCoord) < 0
  /\ url = Str(urls.list[3])

\* C9: a selected url ending in MapServer or MapServer/ is rewritten to end
\* in MapServer/export, one ending in ImageServer or ImageServer/ to end in
\* ImageServer/exportImage, at most one of the two rewrites applies, a url
\* matching neither is used as it is, and rewriting the rewritten url
\* changes nothing.
C9_Rewrite ==
  (Called /\ IsUrl(url)) =>
    LET u == url.s
        m == modifiedUrl.s
        slash == <<"/">>
    IN /\ EndsWith(u, sMapServer) => m = u \o slash \o sExport
       /\ EndsWith(u, sMapServer \o slash) => m = u \o sExport
       /\ EndsWith(u, sImageServer) => m = u \o slash \o sExportImage
       /\ EndsWith(u, sImageServer \o slash) => m = u \o sExportImage
       /\ (/\ ~EndsWith(u, sMapServer)
           /\ ~EndsWith(u, sMapServer \o slash)
           /\ ~EndsWith(u, sImageServer)
           /\ ~EndsWith(u, sImageServer \o slash)) => m = u
       /\ ~(/\ ReplaceMapServer(u) # u
            /\ ReplaceImageServer(ReplaceMapServer(u)) # ReplaceMapServer(u))
       /\ ModifiedUrl(m) = m

C9_Witness ==
  /\ Called
  /\ IsUrl(url)
  /\ EndsWith(url.s, sImageServer \o <<"/">>)
  /\ EndsWith(modifiedUrl.s, sImageServer \o <<"/">> \o sExportImage)
  /\ Len(modifiedUrl.s) = Len(url.s) + Len(sExportImage)

\* The entries of a key: the pieces between its '/'.
RECURSIVE SplitSlash(_)
SplitSlash(str) ==
  IF ~InSeq("/", str) THEN <<str>>
  ELSE LET i == CHOOSE j \in 1..Len(str) : str[j] = "/" /\ \A h \in 1..(j - 1) : str[h] # "/"
       IN <<SubSeq(str, 1, i - 1)>> \o SplitSlash(SubSeq(str, i + 1, Len(str)))

\* C2: over a call of updateParams the key of the stored parameters changes
\* if and only if their content changes (a change of a value's type, such
\* as the number 1 to the string '1', or a value that holds '/' or '-',
\* included).
C2_KeyChangesIffContent ==
  [][lastOp'.op = "updateParams" =>
       ((getKeyForParams_(params_') # getKeyForParams_(params_)) <=> (params_' # params_))]_vars

\* C3 as stated: in every state reached by updateParams calls,
\* fixedTileUrlFunction calls and writes of the caller to the live mapping,
\* the key is getKeyForParams_ of the stored parameters.
C3_KeyAlwaysCurrent == key = getKeyForParams_(params_)

\* C3 amended: the key is getKeyForParams_ of the stored parameters right
\* after construction and right after every updateParams call, and
\* fixedTileUrlFunction keeps a current key current; a write of the caller
\* to the live mapping leaves the key as it was.
C3_KeyCurrentAfterUpdate ==
  /\ [](lastOp.op \in {"constructor", "updateParams"} => key = getKeyForParams_(params_))
  /\ [][/\ (lastOp'.op = "fixedTileUrlFunction" /\ key = getKeyForParams_(params_)) =>
             key' = getKeyForParams_(params_')
        /\ lastOp'.op = "write" => key' = key]_vars

\* An empty updateParams call on two stored entries, the key current.
C3_Witness ==
  /\ lastOp.op = "updateParams"
  /\ Len(lastOp.params) = 0
  /\ Len(params_) = 2
  /\ key = getKeyForParams_(params_)

\* C10: fixedTileUrlFunction leaves the stored parameters and the key as
\* they were, whatever it returns, and after updateParams({BBOX: 'x'}) the
\* key holds the entry 'BBOX-x'.
C10_CallKeepsParams ==
  /\ [][lastOp'.op = "fixedTileUrlFunction" => (params_' = params_ /\ key' = key)]_vars
  /\ []((lastOp.op = "updateParams" /\ Get(lastOp.params, kBBOX) = sX) =>
          InSeq(kBBOX \o <<"-", "x">>, SplitSlash(key)))

C10_Witness ==
  /\ Called
  /\ IsUrl(ret)
  /\ Get(params_, kBBOX) = sX
  /\ ~Has(params_, kF)
  /\ Has(request, kF)
  /\ Get(request, kBBOX) # sX
  /\ InSeq(kBBOX \o <<"-", "x">>, SplitSlash(key))

====
